---- MODULE Spec2Model ----
(***************************************************************************)
(* Box3DMode.convert (mmdet3d/structures/bbox_3d/box_3d_mode.py): the      *)
(* conversion of 3D boxes between the LIDAR, CAM and DEPTH coordinate      *)
(* systems, as a state machine that runs one call of convert step by step. *)
(*                                                                         *)
(* Numbers are integers.  Angles are counted in units of pi/4, so that     *)
(* np.pi is PI units and every quarter turn and every diagonal direction   *)
(* is exact.  A tensor of shape (N,k) is a sequence of N rows, each a      *)
(* sequence of k numbers; a list or tuple is a flat sequence of numbers.   *)
(***************************************************************************)
EXTENDS Integers, Sequences, FiniteSets, TLC

(***************************************************************************)
(* Bounds of the explored inputs.                                          *)
(***************************************************************************)
\* input yaws range over -MaxYaw..MaxYaw angle units: all of [-pi, pi] and
\* yaws outside of it on both sides
MaxYaw == 5
\* number of pass-through columns after the yaw column
MaxExtra == 1

(***************************************************************************)
(* Program constants.                                                      *)
(***************************************************************************)
\* np.pi in angle units of pi/4
PI == 4
LIDAR == 0
CAM == 1
DEPTH == 2
\* an integer that is no member of the enum
OTHER_MODE == DEPTH + 1

Modes == {LIDAR, CAM, DEPTH}

(***************************************************************************)
(* Tensor helpers (torch slicing, cat, matmul, element-wise maps).         *)
(***************************************************************************)
Min(a, b) == IF a < b THEN a ELSE b

\* Python s[a:b] for 0 <= a, b: out-of-range bounds are clipped
Slice(s, a, b) == SubSeq(s, a + 1, Min(b, Len(s)))

\* t[..., a:b]
Cols(t, a, b) == [i \in 1..Len(t) |-> Slice(t[i], a, b)]

\* t[..., a:]
ColsFrom(t, a) == [i \in 1..Len(t) |-> Slice(t[i], a, Len(t[i]))]

\* t.size(-1) of a tensor with at least one row
Width(t) == Len(t[1])

\* Cat2 taking the first row of b for every row
Cat2_FirstRow(a, b) == [i \in 1..Len(a) |-> a[i] \o b[1]]

\* torch.cat([a, b], dim=-1)
Cat2(a, b) == [i \in 1..Len(a) |-> a[i] \o b[i]]

\* torch.cat(ts, dim=-1) for a sequence of tensors with equally many rows
RECURSIVE Cat(_)
Cat(ts) == IF Len(ts) = 1 THEN ts[1] ELSE Cat2(ts[1], Cat(Tail(ts)))

RECURSIVE Dot(_, _)
Dot(u, v) == IF Len(u) = 0 THEN 0 ELSE u[1] * v[1] + Dot(Tail(u), Tail(v))

\* m.t(): columns become rows
Transpose(m) == [j \in 1..Len(m[1]) |-> [i \in 1..Len(m) |-> m[i][j]]]

\* whether a @ b is defined: a is (N,w), b is (w,c)
CanMatMul(a, b) == Width(a) = Len(b)

\* a @ b
MatMul(a, b) ==
  LET bt == Transpose(b)
  IN  [i \in 1..Len(a) |-> [j \in 1..Len(bt) |-> Dot(a[i], bt[j])]]

\* element-wise f over a tensor
Map(f(_), t) == [i \in 1..Len(t) |-> [j \in 1..Len(t[i]) |-> f(t[i][j])]]

\* arr.flatten().tolist()
RECURSIVE Flatten(_)
Flatten(t) == IF Len(t) = 0 THEN <<>> ELSE t[1] \o Flatten(Tail(t))

(***************************************************************************)
(* Angles.                                                                 *)
(***************************************************************************)
\* limit_period(val, period): val less the multiple of period nearest to it,
\* which brings it into [-period/2, period/2)
limit_period(val, period) == val - ((2 * val + period) \div (2 * period)) * period

\* torch.cos and torch.sin of an angle, both scaled by the same positive
\* factor (1 on the axes, sqrt 2 on the diagonals): only the direction of
\* (cos, sin) reaches atan2, which does not depend on a positive scale.
Cos(a) ==
  CASE a % (2 * PI) \in {0, 1, 7} -> 1
    [] a % (2 * PI) \in {2, 6} -> 0
    [] a % (2 * PI) \in {3, 4, 5} -> -1

Sin(a) ==
  CASE a % (2 * PI) \in {1, 2, 3} -> 1
    [] a % (2 * PI) \in {0, 4} -> 0
    [] a % (2 * PI) \in {5, 6, 7} -> -1

\* torch.atan2(y, x), in angle units: exact on the axes and the diagonals,
\* where its range is (-pi, pi], atan2(0, x) is pi for x < 0 and atan2(0, 0)
\* is 0; in between, the angle rounded to the nearest unit (the direction
\* is nearer to the x axis than to a diagonal iff |y| < (sqrt 2 - 1) |x|,
\* that is iff (|x| + |y|)^2 < 2 x^2)
Atan2(y, x) ==
  CASE y = 0 /\ x >= 0 -> 0
    [] y = 0 /\ x < 0 -> PI
    [] x = 0 /\ y > 0 -> PI \div 2
    [] x = 0 /\ y < 0 -> -(PI \div 2)
    [] x > 0 /\ y = x -> PI \div 4
    [] x > 0 /\ y = -x -> -(PI \div 4)
    [] x < 0 /\ y = -x -> PI - PI \div 4
    [] x < 0 /\ y = x -> -(PI - PI \div 4)
    [] OTHER ->
         LET ax == IF x < 0 THEN -x ELSE x
             ay == IF y < 0 THEN -y ELSE y
             sq == (ax + ay) * (ax + ay)
         IN  IF sq < 2 * ax * ax
             THEN (IF x > 0 THEN 0 ELSE IF y > 0 THEN PI ELSE -PI)
             ELSE IF sq < 2 * ay * ay
             THEN (IF y > 0 THEN PI \div 2 ELSE -(PI \div 2))
             ELSE IF x > 0
             THEN (IF y > 0 THEN PI \div 4 ELSE -(PI \div 4))
             ELSE (IF y > 0 THEN PI - PI \div 4 ELSE -(PI - PI \div 4))

(***************************************************************************)
(* The six branches of convert (the if/elif chain on (src, dst)).          *)
(***************************************************************************)
\* the conditions of the if/elif chain: the pairs that have a branch
Supported(src, dst) ==
  \/ src = LIDAR /\ dst = CAM
  \/ src = CAM /\ dst = LIDAR
  \/ src = DEPTH /\ dst = CAM
  \/ src = CAM /\ dst = DEPTH
  \/ src = LIDAR /\ dst = DEPTH
  \/ src = DEPTH /\ dst = LIDAR

\* DefaultRtMat with the sign of one entry of the LIDAR->CAM matrix lost
DefaultRtMat_SignSlip(src, dst) ==
  CASE src = LIDAR /\ dst = CAM -> << <<0, 1, 0>>, <<0, 0, -1>>, <<1, 0, 0>> >>
    [] src = CAM /\ dst = LIDAR -> << <<0, 0, 1>>, <<-1, 0, 0>>, <<0, -1, 0>> >>
    [] src = DEPTH /\ dst = CAM -> << <<1, 0, 0>>, <<0, 0, -1>>, <<0, 1, 0>> >>
    [] src = CAM /\ dst = DEPTH -> << <<1, 0, 0>>, <<0, 0, 1>>, <<0, -1, 0>> >>
    [] src = LIDAR /\ dst = DEPTH -> << <<0, -1, 0>>, <<1, 0, 0>>, <<0, 0, 1>> >>
    [] src = DEPTH /\ dst = LIDAR -> << <<0, 1, 0>>, <<-1, 0, 0>>, <<0, 0, 1>> >>

\* rt_mat = arr.new_tensor(...) of the branch, used when rt_mat is None
DefaultRtMat(src, dst) ==
  CASE src = LIDAR /\ dst = CAM -> << <<0, -1, 0>>, <<0, 0, -1>>, <<1, 0, 0>> >>
    [] src = CAM /\ dst = LIDAR -> << <<0, 0, 1>>, <<-1, 0, 0>>, <<0, -1, 0>> >>
    [] src = DEPTH /\ dst = CAM -> << <<1, 0, 0>>, <<0, 0, -1>>, <<0, 1, 0>> >>
    [] src = CAM /\ dst = DEPTH -> << <<1, 0, 0>>, <<0, 0, 1>>, <<0, -1, 0>> >>
    [] src = LIDAR /\ dst = DEPTH -> << <<0, -1, 0>>, <<1, 0, 0>>, <<0, 0, 1>> >>
    [] src = DEPTH /\ dst = LIDAR -> << <<0, 1, 0>>, <<-1, 0, 0>>, <<0, 0, 1>> >>

\* XyzSize with the LIDAR->DEPTH branch copied from a camera branch
XyzSize_CopiedBranch(src, dst, x_size, y_size, z_size) ==
  CASE src = LIDAR /\ dst = CAM -> Cat(<<x_size, z_size, y_size>>)
    [] src = CAM /\ dst = LIDAR -> Cat(<<x_size, z_size, y_size>>)
    [] src = DEPTH /\ dst = CAM -> Cat(<<x_size, z_size, y_size>>)
    [] src = CAM /\ dst = DEPTH -> Cat(<<x_size, z_size, y_size>>)
    [] src = LIDAR /\ dst = DEPTH -> Cat(<<x_size, z_size, y_size>>)
    [] src = DEPTH /\ dst = LIDAR -> Cat(<<x_size, y_size, z_size>>)

\* xyz_size = torch.cat([...], dim=-1) of the branch
XyzSize(src, dst, x_size, y_size, z_size) ==
  CASE src = LIDAR /\ dst = CAM -> Cat(<<x_size, z_size, y_size>>)
    [] src = CAM /\ dst = LIDAR -> Cat(<<x_size, z_size, y_size>>)
    [] src = DEPTH /\ dst = CAM -> Cat(<<x_size, z_size, y_size>>)
    [] src = CAM /\ dst = DEPTH -> Cat(<<x_size, z_size, y_size>>)
    [] src = LIDAR /\ dst = DEPTH -> Cat(<<x_size, y_size, z_size>>)
    [] src = DEPTH /\ dst = LIDAR -> Cat(<<x_size, y_size, z_size>>)

Zero(v) == 0

\* One as zeros: new_zeros in the place of new_ones
One_Zero(v) == 0

One(v) == 1

\* YawVector with the direction of a CAM source built from yaw, not -yaw
YawVector_CamSign(src, dst, yaw) ==
  LET fromCam == Cat(<<Map(Cos, yaw), Map(Zero, yaw), Map(Sin, yaw)>>)
      fromFlat == Cat(<<Map(Cos, yaw), Map(Sin, yaw), Map(Zero, yaw)>>)
  IN  IF src = CAM THEN fromCam ELSE fromFlat

\* yaw_vector = torch.cat([...], dim=1) of the branch (correct_yaw)
YawVector(src, dst, yaw) ==
  LET cosNeg(v) == Cos(-v)
      sinNeg(v) == Sin(-v)
      fromCam == Cat(<<Map(cosNeg, yaw), Map(Zero, yaw), Map(sinNeg, yaw)>>)
      fromFlat == Cat(<<Map(Cos, yaw), Map(Sin, yaw), Map(Zero, yaw)>>)
  IN  CASE src = LIDAR /\ dst = CAM -> fromFlat
        [] src = CAM /\ dst = LIDAR -> fromCam
        [] src = DEPTH /\ dst = CAM -> fromFlat
        [] src = CAM /\ dst = DEPTH -> fromCam
        [] src = LIDAR /\ dst = DEPTH -> fromFlat
        [] src = DEPTH /\ dst = LIDAR -> fromFlat

\* YawFixup with the quarter turn of CAM->LIDAR added instead of subtracted
YawFixup_OffsetSlip(src, dst, yaw) ==
  LET wrap(v) == limit_period(v, PI * 2)
      lidarCam(v) == -v - PI \div 2
      camLidar(v) == -v + PI \div 2
      depthCam(v) == -v
      lidarDepth(v) == v + PI \div 2
      depthLidar(v) == v - PI \div 2
  IN  CASE src = LIDAR /\ dst = CAM -> Map(wrap, Map(lidarCam, yaw))
        [] src = CAM /\ dst = LIDAR -> Map(wrap, Map(camLidar, yaw))
        [] src = DEPTH /\ dst = CAM -> Map(depthCam, yaw)
        [] src = CAM /\ dst = DEPTH -> Map(depthCam, yaw)
        [] src = LIDAR /\ dst = DEPTH -> Map(wrap, Map(lidarDepth, yaw))
        [] src = DEPTH /\ dst = LIDAR -> Map(wrap, Map(depthLidar, yaw))

\* YawFixup with the yaw of DEPTH->CAM kept instead of negated
YawFixup_KeptSign(src, dst, yaw) ==
  LET wrap(v) == limit_period(v, PI * 2)
      lidarCam(v) == -v - PI \div 2
      depthCam(v) == -v
      lidarDepth(v) == v + PI \div 2
      depthLidar(v) == v - PI \div 2
  IN  CASE src = LIDAR /\ dst = CAM -> Map(wrap, Map(lidarCam, yaw))
        [] src = CAM /\ dst = LIDAR -> Map(wrap, Map(lidarCam, yaw))
        [] src = DEPTH /\ dst = CAM -> yaw
        [] src = CAM /\ dst = DEPTH -> Map(depthCam, yaw)
        [] src = LIDAR /\ dst = DEPTH -> Map(wrap, Map(lidarDepth, yaw))
        [] src = DEPTH /\ dst = LIDAR -> Map(wrap, Map(depthLidar, yaw))

\* the closed-form yaw of the branch (not correct_yaw)
YawFixup(src, dst, yaw) ==
  LET wrap(v) == limit_period(v, PI * 2)
      lidarCam(v) == -v - PI \div 2
      depthCam(v) == -v
      lidarDepth(v) == v + PI \div 2
      depthLidar(v) == v - PI \div 2
  IN  CASE src = LIDAR /\ dst = CAM -> Map(wrap, Map(lidarCam, yaw))
        [] src = CAM /\ dst = LIDAR -> Map(wrap, Map(lidarCam, yaw))
        [] src = DEPTH /\ dst = CAM -> Map(depthCam, yaw)
        [] src = CAM /\ dst = DEPTH -> Map(depthCam, yaw)
        [] src = LIDAR /\ dst = DEPTH -> Map(wrap, Map(lidarDepth, yaw))
        [] src = DEPTH /\ dst = LIDAR -> Map(wrap, Map(depthLidar, yaw))

(***************************************************************************)
(* Objects.  A value is a reference [kind, ref] into the heap; the heap is *)
(* a sequence of cells and a reference is an index into it.  The cell of a *)
(* list, tuple, ndarray or Tensor is [data |-> ...]; the cell of a BoxSet  *)
(* (a BaseInstance3DBoxes) is [data |-> its tensor, with_yaw |-> flag].    *)
(***************************************************************************)
None == [kind |-> "None", ref |-> 0]

BoxSetKinds ==
  {"LiDARInstance3DBoxes", "CameraInstance3DBoxes", "DepthInstance3DBoxes",
   "BaseInstance3DBoxes"}

\* the heap with one more cell, and the reference to that cell
Alloc(h, cell) == Append(h, cell)
NewRef(h) == Len(h) + 1

\* a local that is not bound yet
Unbound == <<>>

Ok(v) == [status |-> "ok", value |-> v]
Raise(e) == [status |-> e, value |-> None]

(***************************************************************************)
(* The steps of convert.  Each takes the frame f of a call (its arguments  *)
(* and locals, under the names of the source) and the heap h, and gives    *)
(* the frame and heap after the step.                                      *)
(***************************************************************************)
\* Identity returning a copy of the box instead of the box
Identity_Copy(f, h) ==
  [f |-> [f EXCEPT !.pc = "done",
                   !.ret = Ok([kind |-> f.box.kind, ref |-> NewRef(h)])],
   h |-> Alloc(h, h[f.box.ref])]

\* lines 100-101: src == dst returns the box itself
Identity(f, h) ==
  [f |-> [f EXCEPT !.pc = "done", !.ret = Ok(f.box)], h |-> h]

\* LongEnough with the bound of the no-yaw layout
LongEnough_Six(n) == n >= 6

\* line 107: the length a list or tuple must have
LongEnough(n) == n >= 7

\* Shortcut taken only after the length check of a list or tuple
Shortcut_Validated(f, h) ==
  /\ f.src = f.dst
  /\ f.box.kind \in {"list", "tuple"} => LongEnough(Len(h[f.box.ref].data))

\* line 100: if src == dst, the first statement of convert
Shortcut(f, h) == f.src = f.dst

\* lines 100-118: the identity shortcut, the classification of the input,
\* the length assertion of a list or tuple, and the private copy arr
EntryStep(f, h) ==
  IF Shortcut(f, h)
  THEN Identity(f, h)
  ELSE LET is_numpy == f.box.kind = "ndarray"
           is_Instance3DBoxes == f.box.kind \in BoxSetKinds
           single_box == f.box.kind \in {"list", "tuple"}
           g == [f EXCEPT !.is_numpy = is_numpy,
                          !.is_Instance3DBoxes = is_Instance3DBoxes,
                          !.single_box = single_box]
       IN  IF single_box /\ ~LongEnough(Len(h[f.box.ref].data))
           THEN [f |-> [g EXCEPT !.pc = "raised",
                                 !.ret = Raise("AssertionError")],
                 h |-> h]
           ELSE LET copy == IF single_box
                            THEN <<h[f.box.ref].data>>
                            ELSE h[f.box.ref].data
                IN  [f |-> [g EXCEPT !.pc = "branch", !.arr = NewRef(h)],
                     h |-> Alloc(h, [data |-> copy])]

\* Unsupported passing the box through without an error
Unsupported_PassThrough(f) ==
  [f EXCEPT !.pc = "done", !.ret = Ok(f.box)]

\* lines 215-218: the else branch of the if/elif chain
Unsupported(f) ==
  [f EXCEPT !.pc = "raised", !.ret = Raise("NotImplementedError")]

\* EffectiveYaw keeping the argument also for a BoxSet
EffectiveYaw_Argument(f, h) == f.with_yaw

\* lines 120-121: with_yaw is the BoxSet's own flag when box is a BoxSet
EffectiveYaw(f, h) ==
  IF f.is_Instance3DBoxes THEN h[f.box.ref].with_yaw ELSE f.with_yaw

\* ClosedForm taken only when the caller left rt_mat out
ClosedForm_DefaultOnly(f, with_yaw) ==
  with_yaw /\ ~f.correct_yaw /\ f.rt_mat = None

\* lines 132-140 (and each branch alike): the else of "if correct_yaw",
\* under "if with_yaw": the closed-form yaw is computed
ClosedForm(f, with_yaw) == with_yaw /\ ~f.correct_yaw

\* lines 120-218: the BoxSet's own flag, the slices of arr, and the branch
\* of the pair (default rt_mat, xyz_size, yaw_vector or closed-form yaw)
BranchStep(f, h) ==
  LET with_yaw == EffectiveYaw(f, h)
      arr == h[f.arr].data
      x_size == Cols(arr, 3, 4)
      y_size == Cols(arr, 4, 5)
      z_size == Cols(arr, 5, 6)
      yaw == IF with_yaw THEN Cols(arr, 6, 7) ELSE Unbound
      g == [f EXCEPT !.with_yaw = with_yaw, !.yaw = yaw]
  IN  IF ~Supported(f.src, f.dst)
      THEN [f |-> Unsupported(g), h |-> h]
      ELSE LET k == [g EXCEPT
                 !.pc = "xyz",
                 !.rt_mat = IF f.rt_mat = None
                            THEN [kind |-> "Tensor", ref |-> NewRef(h)]
                            ELSE f.rt_mat,
                 !.xyz_size = XyzSize(f.src, f.dst, x_size, y_size, z_size),
                 !.yaw_vector = IF with_yaw /\ f.correct_yaw
                                THEN YawVector(f.src, f.dst, yaw)
                                ELSE Unbound,
                 !.yaw = IF ClosedForm(f, with_yaw)
                         THEN YawFixup(f.src, f.dst, yaw)
                         ELSE yaw]
           IN  [f |-> k,
                h |-> IF f.rt_mat = None
                      THEN Alloc(h, [data |-> DefaultRtMat(f.src, f.dst)])
                      ELSE h]

\* lines 220-227: rt_mat as a tensor, and the center through rt_mat
XyzStep(f, h) ==
  LET convert == f.rt_mat.kind # "Tensor"
      h1 == IF convert THEN Alloc(h, [data |-> h[f.rt_mat.ref].data]) ELSE h
      rt_mat == IF convert
                THEN [kind |-> "Tensor", ref |-> NewRef(h)]
                ELSE f.rt_mat
      m == h1[rt_mat.ref].data
      arr == h[f.arr].data
      lhs == IF Width(m) = 4
             THEN Cat(<<Cols(arr, 0, 3), Map(One, Cols(arr, 0, 1))>>)
             ELSE Cols(arr, 0, 3)
  IN  IF ~CanMatMul(lhs, Transpose(m))
      THEN [f |-> [f EXCEPT !.pc = "raised", !.rt_mat = rt_mat,
                            !.ret = Raise("RuntimeError")],
            h |-> h1]
      ELSE [f |-> [f EXCEPT !.pc = "yaw", !.rt_mat = rt_mat,
                            !.xyz = MatMul(lhs, Transpose(m))],
            h |-> h1]

\* Rot3 taking the last three columns instead of the first three
Rot3_Tail(m) == Cols(Slice(m, 0, 3), Width(m) - 3, Width(m))

\* line 232: rt_mat[:3, :3], the rotation part of rt_mat
Rot3(m) == Cols(Slice(m, 0, 3), 0, 3)

\* lines 229-239: under correct_yaw, the yaw of the rotated yaw_vector
YawStep(f, h) ==
  IF f.with_yaw /\ f.correct_yaw
  THEN LET m == h[f.rt_mat.ref].data
           rot3 == Rot3(m)
           wrap(v) == limit_period(v, PI * 2)
       IN  IF ~CanMatMul(f.yaw_vector, Transpose(rot3))
           THEN [f |-> [f EXCEPT !.pc = "raised",
                                 !.ret = Raise("RuntimeError")],
                 h |-> h]
           ELSE LET rot_yaw_vector == MatMul(f.yaw_vector, Transpose(rot3))
                    camYaw == [i \in 1..Len(rot_yaw_vector) |->
                                 <<Atan2(-rot_yaw_vector[i][3],
                                         rot_yaw_vector[i][1])>>]
                    flatYaw == [i \in 1..Len(rot_yaw_vector) |->
                                  <<Atan2(rot_yaw_vector[i][2],
                                          rot_yaw_vector[i][1])>>]
                    yaw == IF f.dst = CAM THEN camYaw
                           ELSE IF f.dst \in {LIDAR, DEPTH} THEN flatYaw
                           ELSE f.yaw
                IN  [f |-> [f EXCEPT !.pc = "cat", !.yaw = Map(wrap, yaw)],
                     h |-> h]
  ELSE [f |-> [f EXCEPT !.pc = "cat"], h |-> h]

\* StoreArr writing the output buffer through to the caller's box as well
StoreArr_WriteThrough(h, f, new) ==
  Alloc([h EXCEPT ![f.box.ref].data = new], [data |-> new])

\* lines 243, 246: arr = torch.cat(...) binds arr to a new tensor
StoreArr(h, f, new) == Alloc(h, [data |-> new])

\* TargetType with the types of CAM and LIDAR exchanged
TargetType_Exchanged(dst) ==
  CASE dst = CAM -> "LiDARInstance3DBoxes"
    [] dst = LIDAR -> "CameraInstance3DBoxes"
    [] dst = DEPTH -> "DepthInstance3DBoxes"

\* the concrete BoxSet type of the destination (target_type)
TargetType(dst) ==
  CASE dst = CAM -> "CameraInstance3DBoxes"
    [] dst = LIDAR -> "LiDARInstance3DBoxes"
    [] dst = DEPTH -> "DepthInstance3DBoxes"

\* the BoxSet a constructor builds: target_type(arr, box_dim, with_yaw)
NewBoxSet(tensor, with_yaw) == [data |-> tensor, with_yaw |-> with_yaw]

\* Remains cut after the yaw column also when there is no yaw
Remains_FromSeven(arr, with_yaw) == ColsFrom(arr, 7)

\* Remains cut after the sizes also when there is a yaw
Remains_FromSix(arr, with_yaw) == ColsFrom(arr, 6)

\* lines 242, 245: remains = arr[..., 7:] with a yaw, arr[..., 6:] without
Remains(arr, with_yaw) ==
  IF with_yaw THEN ColsFrom(arr, 7) ELSE ColsFrom(arr, 6)

\* lines 241-267: the output buffer, and the result in the kind of the input
CatStep(f, h) ==
  LET old == h[f.arr].data
      remains == Remains(old, f.with_yaw)
      new == IF f.with_yaw
             THEN Cat(<<Cols(f.xyz, 0, 3), f.xyz_size, f.yaw, remains>>)
             ELSE Cat(<<Cols(f.xyz, 0, 3), f.xyz_size, remains>>)
      arr == NewRef(h)
      h1 == StoreArr(h, f, new)
      original_type == f.box.kind
      g == [f EXCEPT !.arr = arr]
  IN  IF f.single_box
      THEN [f |-> [g EXCEPT !.pc = "done",
                            !.ret = Ok([kind |-> original_type,
                                        ref |-> NewRef(h1)])],
            h |-> Alloc(h1, [data |-> Flatten(new)])]
      ELSE IF f.is_numpy
      THEN [f |-> [g EXCEPT !.pc = "done",
                            !.ret = Ok([kind |-> "ndarray", ref |-> arr])],
            h |-> h1]
      ELSE IF f.is_Instance3DBoxes
      THEN IF f.dst \in {CAM, LIDAR, DEPTH}
           THEN [f |-> [g EXCEPT !.pc = "done",
                                 !.ret = Ok([kind |-> TargetType(f.dst),
                                             ref |-> NewRef(h1)])],
                 h |-> Alloc(h1, NewBoxSet(new, f.with_yaw))]
           ELSE [f |-> [g EXCEPT !.pc = "raised",
                                 !.ret = Raise("NotImplementedError")],
                 h |-> h1]
      ELSE [f |-> [g EXCEPT !.pc = "done",
                            !.ret = Ok([kind |-> "Tensor", ref |-> arr])],
            h |-> h1]

\* one step of a call, by its position
Step(f, h) ==
  CASE f.pc = "start" -> EntryStep(f, h)
    [] f.pc = "branch" -> BranchStep(f, h)
    [] f.pc = "xyz" -> XyzStep(f, h)
    [] f.pc = "yaw" -> YawStep(f, h)
    [] f.pc = "cat" -> CatStep(f, h)

\* a call run to its end: the frame and heap when it has returned or raised
RECURSIVE Run(_, _)
Run(f, h) ==
  IF f.pc \in {"done", "raised"}
  THEN [f |-> f, h |-> h]
  ELSE Run(Step(f, h).f, Step(f, h).h)

\* the frame of a call that has not started
Frame(box, src, dst, rt_mat, with_yaw, correct_yaw) ==
  [pc |-> "start", box |-> box, src |-> src, dst |-> dst, rt_mat |-> rt_mat,
   with_yaw |-> with_yaw, correct_yaw |-> correct_yaw,
   is_numpy |-> FALSE, is_Instance3DBoxes |-> FALSE, single_box |-> FALSE,
   arr |-> 0, yaw |-> Unbound, yaw_vector |-> Unbound, xyz_size |-> Unbound,
   xyz |-> Unbound, ret |-> Raise("pending")]

(***************************************************************************)
(* The inputs of the explored calls.                                       *)
(***************************************************************************)
AllModes == Modes \cup {OTHER_MODE}

Yaws == (-MaxYaw)..MaxYaw

Centers == {<<1, 2, 3>>, <<-2, 0, 1>>}

Sizes == {<<4, 5, 6>>}

\* the pass-through columns: column 7 + j holds 11 + j
Extras(n) == [j \in 1..n |-> 10 + j]

\* the widths of the explored rows: too narrow ones, and 7 and more
Widths == {2, 5, 6} \cup {7 + n : n \in 0..MaxExtra}

\* a row [x, y, z, dx, dy, dz, yaw, extras], cut to its first k columns
Row(c, s, y, k) == Slice(c \o s \o <<y>> \o Extras(MaxExtra), 0, k)

Rows == {Row(c, s, y, k) : c \in Centers, s \in Sizes, y \in Yaws, k \in Widths}

\* a rotation by a quarter turn about z, and an affine matrix [R|t]
RotZ == << <<0, -1, 0>>, <<1, 0, 0>>, <<0, 0, 1>> >>
Affine == << <<0, -1, 0, 5>>, <<0, 0, -1, -1>>, <<1, 0, 0, 2>> >>

\* the rt_mat arguments: None, an ndarray, a Tensor
RtMats ==
  {[kind |-> "None", data |-> <<>>],
   [kind |-> "ndarray", data |-> RotZ],
   [kind |-> "Tensor", data |-> Affine]}

\* the BoxSet type a caller holds for boxes of a coordinate system
SrcType(src) ==
  CASE src = CAM -> "CameraInstance3DBoxes"
    [] src = LIDAR -> "LiDARInstance3DBoxes"
    [] src = DEPTH -> "DepthInstance3DBoxes"
    [] OTHER -> "BaseInstance3DBoxes"

\* a second row of the same width, for the arrays of two rows
Partner(row) == [j \in 1..Len(row) |-> row[j] + 3]

\* the box arguments over a row: a cell and its kind
Boxes(row, src) ==
  {[kind |-> k, cell |-> [data |-> row]] : k \in {"list", "tuple"}}
  \cup {[kind |-> k, cell |-> [data |-> <<row>>]] : k \in {"ndarray", "Tensor"}}
  \cup {[kind |-> "Tensor", cell |-> [data |-> <<row, Partner(row)>>]]}
  \cup {[kind |-> SrcType(src), cell |-> [data |-> <<row>>, with_yaw |-> b]] :
          b \in BOOLEAN}

\* a call: the arguments of convert as the caller passes them
Call(box, src, dst, rt_mat, with_yaw, correct_yaw) ==
  [box |-> box, src |-> src, dst |-> dst, rt_mat |-> rt_mat,
   with_yaw |-> with_yaw, correct_yaw |-> correct_yaw]

\* the heap a call starts on: the box at reference 1, rt_mat (if any) at 2
HeapOf(c) ==
  IF c.rt_mat.kind = "None"
  THEN <<c.box.cell>>
  ELSE <<c.box.cell, [data |-> c.rt_mat.data]>>

\* the frame a call starts in
FrameOf(c) ==
  Frame([kind |-> c.box.kind, ref |-> 1], c.src, c.dst,
        IF c.rt_mat.kind = "None" THEN None
        ELSE [kind |-> c.rt_mat.kind, ref |-> 2],
        c.with_yaw, c.correct_yaw)

(***************************************************************************)
(* The state machine.                                                      *)
(***************************************************************************)
VARIABLES
  heap,    \* the cells of all objects
  frames,  \* the frame of every caller's call of convert
  calls    \* the arguments every caller passed (never changed)

vars == <<heap, frames, calls>>

Init ==
  \E row \in Rows, src \in AllModes, dst \in AllModes, m \in RtMats,
     wy \in BOOLEAN, cy \in BOOLEAN :
    \E b \in Boxes(row, src) :
      LET c == Call(b, src, dst, m, wy, cy)
      IN  /\ heap = HeapOf(c)
          /\ frames = [p \in {1} |-> FrameOf(c)]
          /\ calls = [p \in {1} |-> c]

Advance(p, pc) ==
  /\ frames[p].pc = pc
  /\ frames' = [frames EXCEPT ![p] = Step(frames[p], heap).f]
  /\ heap' = Step(frames[p], heap).h
  /\ UNCHANGED calls

Entry(p) == Advance(p, "start")
Branch(p) == Advance(p, "branch")
Xyz(p) == Advance(p, "xyz")
Yaw(p) == Advance(p, "yaw")
CatOut(p) == Advance(p, "cat")

Next ==
  \/ \E p \in DOMAIN frames : Entry(p)
  \/ \E p \in DOMAIN frames : Branch(p)
  \/ \E p \in DOMAIN frames : Xyz(p)
  \/ \E p \in DOMAIN frames : Yaw(p)
  \/ \E p \in DOMAIN frames : CatOut(p)

Spec == Init /\ [][Next]_vars

(***************************************************************************)
(* What a call was given and what it returned.                             *)
(***************************************************************************)
Returned(p) == frames[p].pc = "done"
Raised(p) == frames[p].pc = "raised"

\* the rows of a list, tuple, array, tensor or BoxSet cell
RowsOf(kind, cell) ==
  IF kind \in {"list", "tuple"} THEN <<cell.data>> ELSE cell.data

\* the rows the caller passed, and the rows of the returned value
InRows(p) == RowsOf(calls[p].box.kind, calls[p].box.cell)
OutRows(p) == RowsOf(frames[p].ret.value.kind, heap[frames[p].ret.value.ref])

\* whether column 6 of the call is a yaw: the BoxSet's flag, else the argument
HasYaw(p) ==
  IF calls[p].box.kind \in BoxSetKinds
  THEN calls[p].box.cell.with_yaw
  ELSE calls[p].with_yaw

DefaultMat(p) == calls[p].rt_mat.kind = "None"

\* the value in [-pi, pi) that differs from a by a multiple of 2 pi
WrapTo(a) == CHOOSE v \in (-PI)..(PI - 1) : (v - a) % (2 * PI) = 0

(***************************************************************************)
(* C1.  Per-pair table.                                                    *)
(***************************************************************************)
\* the table's matrix times (x, y, z), written out per pair
TableCenter(src, dst, r) ==
  CASE src = LIDAR /\ dst = CAM -> <<-r[2], -r[3], r[1]>>
    [] src = CAM /\ dst = LIDAR -> <<r[3], -r[1], -r[2]>>
    [] src = DEPTH /\ dst = CAM -> <<r[1], -r[3], r[2]>>
    [] src = CAM /\ dst = DEPTH -> <<r[1], r[3], -r[2]>>
    [] src = LIDAR /\ dst = DEPTH -> <<-r[2], r[1], r[3]>>
    [] src = DEPTH /\ dst = LIDAR -> <<r[2], -r[1], r[3]>>

\* the table's size order
TableSizes(src, dst, r) ==
  IF src = CAM \/ dst = CAM THEN <<r[4], r[6], r[5]>> ELSE <<r[4], r[5], r[6]>>

\* the table's yaw fixup
TableYaw(src, dst, r) ==
  CASE src = LIDAR /\ dst = CAM -> WrapTo(-r[7] - PI \div 2)
    [] src = CAM /\ dst = LIDAR -> WrapTo(-r[7] - PI \div 2)
    [] src = DEPTH /\ dst = CAM -> -r[7]
    [] src = CAM /\ dst = DEPTH -> -r[7]
    [] src = LIDAR /\ dst = DEPTH -> WrapTo(r[7] + PI \div 2)
    [] src = DEPTH /\ dst = LIDAR -> WrapTo(r[7] - PI \div 2)

\* the case of C1: a 7-column box, a supported pair, the default matrix,
\* a yaw column and the closed-form yaw
TableCase(p) ==
  /\ Supported(calls[p].src, calls[p].dst)
  /\ DefaultMat(p)
  /\ HasYaw(p)
  /\ ~calls[p].correct_yaw
  /\ Len(InRows(p)[1]) = 7

\* C1: for each of the six pairs, with rt_mat=None, with_yaw=true and
\* correct_yaw=false, a box [x,y,z,dx,dy,dz,yaw] is mapped to the table's
\* result: center = table matrix times (x,y,z), sizes in the table's order,
\* yaw by the table's fixup; [1,2,3,4,5,6,0] LIDAR->CAM gives
\* (-2,-3,1), (4,6,5), -pi/2.
C1_Table ==
  \A p \in DOMAIN frames :
    TableCase(p) =>
      /\ ~Raised(p)
      /\ Returned(p) =>
           LET r == InRows(p)[1]
               src == calls[p].src
               dst == calls[p].dst
           IN  /\ OutRows(p) =
                    [i \in 1..Len(InRows(p)) |->
                       TableCenter(src, dst, InRows(p)[i])
                       \o TableSizes(src, dst, InRows(p)[i])
                       \o <<TableYaw(src, dst, InRows(p)[i])>>]
               /\ (r = <<1, 2, 3, 4, 5, 6, 0>> /\ src = LIDAR /\ dst = CAM)
                    => OutRows(p)[1] = <<-2, -3, 1, 4, 6, 5, -(PI \div 2)>>

\* a LIDAR->CAM call on [1,2,3,4,5,6,0] has returned the table's box
C1_Witness ==
  \E p \in DOMAIN frames :
    /\ TableCase(p) /\ Returned(p)
    /\ calls[p].src = LIDAR /\ calls[p].dst = CAM
    /\ InRows(p) = << <<1, 2, 3, 4, 5, 6, 0>> >>
    /\ OutRows(p) = << <<-2, -3, 1, 4, 6, 5, -(PI \div 2)>> >>

(***************************************************************************)
(* C2.  Round trip.                                                        *)
(***************************************************************************)
\* whether the rows passed are wide enough for the layout of the call
WellFormed(p) == Len(InRows(p)[1]) >= (IF HasYaw(p) THEN 7 ELSE 6)

\* the returned value converted back: convert(ret, dst, src) with the same
\* flags and the default matrix, run on the heap the first call left
Back(p) ==
  Run(Frame(frames[p].ret.value, calls[p].dst, calls[p].src, None,
            calls[p].with_yaw, calls[p].correct_yaw),
      heap)

BackRows(p) ==
  RowsOf(Back(p).f.ret.value.kind, Back(p).h[Back(p).f.ret.value.ref])

\* the case of C2: a well-formed box converted over a supported pair with
\* the default matrix
RoundTripCase(p) ==
  /\ Supported(calls[p].src, calls[p].dst)
  /\ DefaultMat(p)
  /\ WellFormed(p)
  /\ Returned(p)

\* C2: for every supported pair (A,B) and every box b,
\* convert(convert(b,A,B),B,A) with the default matrices reproduces b's
\* center, its sizes in the original order and its yaw modulo 2 pi, under
\* correct_yaw=true and under correct_yaw=false.
C2_RoundTrip ==
  \A p \in DOMAIN frames :
    RoundTripCase(p) =>
      /\ Back(p).f.pc = "done"
      /\ Len(BackRows(p)) = Len(InRows(p))
      /\ \A i \in 1..Len(InRows(p)) :
           /\ Slice(BackRows(p)[i], 0, 6) = Slice(InRows(p)[i], 0, 6)
           /\ HasYaw(p) =>
                (BackRows(p)[i][7] - InRows(p)[i][7]) % (2 * PI) = 0

\* a box with a yaw has gone LIDAR->CAM under correct_yaw, came out changed,
\* and the way back gives the box that was passed
C2_Witness ==
  \E p \in DOMAIN frames :
    /\ RoundTripCase(p) /\ HasYaw(p) /\ calls[p].correct_yaw
    /\ calls[p].src = LIDAR /\ calls[p].dst = CAM
    /\ InRows(p)[1][7] = 1
    /\ OutRows(p) # InRows(p)
    /\ BackRows(p) = InRows(p)

(***************************************************************************)
(* C3.  Yaw range.                                                         *)
(***************************************************************************)
\* the case of C3: a call with a yaw column, over a supported pair, has
\* returned
YawCase(p) ==
  /\ Supported(calls[p].src, calls[p].dst)
  /\ HasYaw(p)
  /\ WellFormed(p)
  /\ Returned(p)

\* C3: for every supported pair, every input yaw and both values of
\* correct_yaw, the yaw in the output of convert lies in [-pi, pi).
C3_YawRange ==
  \A p \in DOMAIN frames :
    YawCase(p) =>
      \A i \in 1..Len(OutRows(p)) :
        -PI <= OutRows(p)[i][7] /\ OutRows(p)[i][7] < PI

\* C3 on the branches that wrap: outside DEPTH<->CAM with the closed-form
\* yaw, the output yaw lies in [-pi, pi)
C3_YawRangeWrapped ==
  \A p \in DOMAIN frames :
    (YawCase(p) /\ (calls[p].correct_yaw
                    \/ {calls[p].src, calls[p].dst} # {DEPTH, CAM})) =>
      \A i \in 1..Len(OutRows(p)) :
        -PI <= OutRows(p)[i][7] /\ OutRows(p)[i][7] < PI

(***************************************************************************)
(* C4.  Identity.                                                          *)
(***************************************************************************)
\* the case of C4: src == dst and the call has taken its first step
IdentityCase(p) == calls[p].src = calls[p].dst /\ frames[p].pc # "start"

\* C4: when src == dst, convert returns the very object it was given (same
\* reference, no copy, contents unchanged), for every coordinate system,
\* input kind, rt_mat, with_yaw and correct_yaw.
C4_Identity ==
  \A p \in DOMAIN frames :
    IdentityCase(p) =>
      /\ Returned(p)
      /\ frames[p].ret = Ok([kind |-> calls[p].box.kind, ref |-> 1])
      /\ heap = HeapOf(calls[p])

\* a BoxSet passed with a caller's rt_mat and CAM -> CAM came back itself
C4_Witness ==
  \E p \in DOMAIN frames :
    /\ IdentityCase(p) /\ Returned(p)
    /\ calls[p].src = CAM
    /\ calls[p].box.kind = "CameraInstance3DBoxes"
    /\ ~DefaultMat(p)
    /\ frames[p].ret.value.ref = 1
    /\ Len(heap) = 2

(***************************************************************************)
(* C5.  Inputs are not mutated.                                            *)
(***************************************************************************)
\* C5: after any call (successful or failing, any pair, any flags) the
\* caller's box buffer and the caller's rt_mat hold the values they held
\* before the call; the working buffer arr is never the caller's.
C5_InputsKept ==
  \A p \in DOMAIN frames :
    /\ heap[1] = calls[p].box.cell
    /\ ~DefaultMat(p) => heap[2] = [data |-> calls[p].rt_mat.data]
    /\ frames[p].arr \notin 1..Len(HeapOf(calls[p]))

\* a tensor with a caller's rt_mat has been converted to a different box,
\* and both inputs are as they were
C5_Witness ==
  \E p \in DOMAIN frames :
    /\ Returned(p) /\ calls[p].src # calls[p].dst
    /\ calls[p].box.kind = "Tensor" /\ ~DefaultMat(p)
    /\ OutRows(p) # InRows(p)
    /\ frames[p].ret.value.ref \notin {1, 2}
    /\ heap[1] = calls[p].box.cell
    /\ heap[2] = [data |-> calls[p].rt_mat.data]

(***************************************************************************)
(* C6.  Sizes are relabeled.                                               *)
(***************************************************************************)
\* the case of C6: a box with all three size columns, over a supported
\* pair, has been converted
SizeCase(p) ==
  /\ Supported(calls[p].src, calls[p].dst)
  /\ Len(InRows(p)[1]) >= 6
  /\ Returned(p)

\* the number of times v occurs in the sequence s
RECURSIVE Count(_, _)
Count(s, v) ==
  IF Len(s) = 0 THEN 0
  ELSE (IF s[1] = v THEN 1 ELSE 0) + Count(Tail(s), v)

\* C6: for every supported pair, every rt_mat and every flag combination,
\* output columns 3..5 are a permutation of input columns 3..5 (the multiset
\* is preserved): (dx,dz,dy) for every pair involving CAM and (dx,dy,dz) for
\* LIDAR<->DEPTH.
C6_SizePermutation ==
  \A p \in DOMAIN frames :
    SizeCase(p) =>
      \A i \in 1..Len(InRows(p)) :
        LET in == Slice(InRows(p)[i], 3, 6)
            out == Slice(OutRows(p)[i], 3, 6)
        IN  /\ Len(out) = 3
            /\ \A v \in {in[j] : j \in 1..3} : Count(out, v) = Count(in, v)
            /\ out = IF CAM \in {calls[p].src, calls[p].dst}
                     THEN <<in[1], in[3], in[2]>>
                     ELSE in

\* a LIDAR->DEPTH call with a caller's affine rt_mat kept (dx,dy,dz) while
\* moving the center
C6_Witness ==
  \E p \in DOMAIN frames :
    /\ SizeCase(p)
    /\ calls[p].src = LIDAR /\ calls[p].dst = DEPTH
    /\ calls[p].rt_mat.kind = "Tensor"
    /\ Slice(OutRows(p)[1], 3, 6) = <<4, 5, 6>>
    /\ Slice(OutRows(p)[1], 0, 3) # Slice(InRows(p)[1], 0, 3)

(***************************************************************************)
(* C7.  The two yaw strategies on the default matrices.                    *)
(***************************************************************************)
\* the same call with correct_yaw=true, run on the heap the caller built
Corrected(p) ==
  Run(Frame([kind |-> calls[p].box.kind, ref |-> 1], calls[p].src,
            calls[p].dst, None, calls[p].with_yaw, TRUE),
      HeapOf(calls[p]))

CorrectedRows(p) ==
  RowsOf(Corrected(p).f.ret.value.kind,
         Corrected(p).h[Corrected(p).f.ret.value.ref])

\* the case of C7: a call with correct_yaw=false on the default matrix has
\* returned, and the input yaw lies in [-pi, pi)
AgreeCase(p) ==
  /\ Supported(calls[p].src, calls[p].dst)
  /\ DefaultMat(p)
  /\ HasYaw(p)
  /\ WellFormed(p)
  /\ ~calls[p].correct_yaw
  /\ Returned(p)
  /\ \A i \in 1..Len(InRows(p)) :
       -PI <= InRows(p)[i][7] /\ InRows(p)[i][7] < PI

\* C7: for every supported pair and every input yaw in [-pi, pi), convert
\* with rt_mat=None and correct_yaw=true returns the same yaw as convert
\* with rt_mat=None and correct_yaw=false, and the same center and sizes.
C7_StrategiesAgree ==
  \A p \in DOMAIN frames :
    AgreeCase(p) =>
      /\ Corrected(p).f.pc = "done"
      /\ CorrectedRows(p) = OutRows(p)

\* C7 where the closed-form yaw is wrapped, and modulo 2 pi elsewhere: the
\* two strategies agree outside DEPTH<->CAM, and on DEPTH<->CAM they differ
\* by a multiple of 2 pi only
C7_StrategiesAgreeWrapped ==
  \A p \in DOMAIN frames :
    AgreeCase(p) =>
      /\ Corrected(p).f.pc = "done"
      /\ \A i \in 1..Len(OutRows(p)) :
           /\ Slice(CorrectedRows(p)[i], 0, 6) = Slice(OutRows(p)[i], 0, 6)
           /\ (CorrectedRows(p)[i][7] - OutRows(p)[i][7]) % (2 * PI) = 0
           /\ {calls[p].src, calls[p].dst} # {DEPTH, CAM}
                => CorrectedRows(p)[i][7] = OutRows(p)[i][7]
           /\ InRows(p)[i][7] # -PI
                => CorrectedRows(p)[i][7] = OutRows(p)[i][7]

(***************************************************************************)
(* C8.  Malformed arrays.                                                  *)
(***************************************************************************)
\* the case of C8: an array or tensor too narrow for its layout, src != dst
\* (here over a pair that has a branch)
NarrowArrayCase(p) ==
  /\ Supported(calls[p].src, calls[p].dst)
  /\ calls[p].box.kind \in {"ndarray", "Tensor"}
  /\ ~WellFormed(p)

\* C8: for src != dst, convert on an (N,k) array or tensor with k < 7 when
\* with_yaw=true, or k < 6 when with_yaw=false, fails with a malformed-box
\* error before any transform is attempted and returns no converted result:
\* such a call never returns.
C8_NarrowArrayRejected ==
  \A p \in DOMAIN frames : NarrowArrayCase(p) => ~Returned(p)

(***************************************************************************)
(* C9.  Malformed lists and tuples.                                        *)
(***************************************************************************)
\* the case of C9: a list or tuple of fewer than 7 elements, src != dst
ShortListCase(p) ==
  /\ calls[p].src # calls[p].dst
  /\ calls[p].box.kind \in {"list", "tuple"}
  /\ Len(calls[p].box.cell.data) < 7

\* C9: for src != dst, convert on a list or tuple with fewer than 7 elements
\* fails with an error, whatever with_yaw and correct_yaw are, before any
\* tensor is built or any transform applied, and returns no partial result.
C9_ShortListRejected ==
  \A p \in DOMAIN frames :
    ShortListCase(p) =>
      /\ frames[p].pc \in {"start", "raised"}
      /\ heap = HeapOf(calls[p])
      /\ frames[p].arr = 0
      /\ frames[p].xyz = Unbound
      /\ Raised(p) => frames[p].ret = Raise("AssertionError")

\* a 6-element list passed with with_yaw=false over LIDAR->CAM was refused
C9_Witness ==
  \E p \in DOMAIN frames :
    /\ ShortListCase(p) /\ Raised(p)
    /\ calls[p].box.kind = "list"
    /\ Len(calls[p].box.cell.data) = 6
    /\ ~calls[p].with_yaw
    /\ calls[p].src = LIDAR /\ calls[p].dst = CAM
    /\ frames[p].ret.status = "AssertionError"

(***************************************************************************)
(* C10.  Unsupported pairs.                                                *)
(***************************************************************************)
\* the case of C10: src != dst and the pair has no branch
UnsupportedCase(p) ==
  /\ calls[p].src # calls[p].dst
  /\ ~Supported(calls[p].src, calls[p].dst)

\* C10: whenever src != dst and (src,dst) is not one of the six pairs,
\* convert raises an unsupported-conversion error and never returns a box,
\* for every input kind and every flag.
C10_UnsupportedRaises ==
  \A p \in DOMAIN frames :
    UnsupportedCase(p) =>
      /\ ~Returned(p)
      /\ Raised(p) => frames[p].ret = Raise("NotImplementedError")

\* C10 as amended: an unsupported pair never returns a box; the call raises
\* the unsupported-conversion error, except that a list or tuple of fewer
\* than 7 elements raises the length assertion first
C10_UnsupportedFails ==
  \A p \in DOMAIN frames :
    UnsupportedCase(p) =>
      /\ ~Returned(p)
      /\ frames[p].pc \in {"start", "branch", "raised"}
      /\ Raised(p) =>
           frames[p].ret = IF ShortListCase(p)
                           THEN Raise("AssertionError")
                           ELSE Raise("NotImplementedError")

\* a BoxSet sent from LIDAR to a tag outside the enum raised the
\* unsupported-conversion error
C10_Witness ==
  \E p \in DOMAIN frames :
    /\ UnsupportedCase(p) /\ Raised(p)
    /\ calls[p].src = LIDAR /\ calls[p].dst = OTHER_MODE
    /\ calls[p].box.kind = "LiDARInstance3DBoxes"
    /\ frames[p].ret.status = "NotImplementedError"

(***************************************************************************)
(* C11.  The kind of the result.                                           *)
(***************************************************************************)
\* the case of C11: a call over a supported pair has returned
KindCase(p) == Supported(calls[p].src, calls[p].dst) /\ Returned(p)

\* the BoxSet subtype of a destination, as the claim names it
SubtypeFor(dst) ==
  IF dst = CAM THEN "CameraInstance3DBoxes"
  ELSE IF dst = LIDAR THEN "LiDARInstance3DBoxes"
  ELSE "DepthInstance3DBoxes"

\* C11: for src != dst, convert returns the kind it was given: a list gives
\* a flat list and a tuple a flat tuple of the length of the input, an
\* ndarray gives an ndarray and a tensor a tensor with the same number of
\* rows and columns, and a BoxSet gives a new BoxSet of the subtype of dst
\* (CAM -> Camera, LIDAR -> LiDAR, DEPTH -> Depth) with the with_yaw flag
\* of the input BoxSet.
C11_KindPreserved ==
  \A p \in DOMAIN frames :
    KindCase(p) =>
      LET in == calls[p].box
          out == frames[p].ret.value
          cell == heap[out.ref]
      IN  /\ out.ref \notin 1..Len(HeapOf(calls[p]))
          /\ in.kind \in {"list", "tuple"} =>
               /\ out.kind = in.kind
               /\ Len(cell.data) = Len(in.cell.data)
               /\ DOMAIN cell = {"data"}
          /\ in.kind \in {"ndarray", "Tensor"} =>
               /\ out.kind = in.kind
               /\ Len(cell.data) = Len(in.cell.data)
               /\ \A i \in 1..Len(cell.data) :
                    Len(cell.data[i]) = Len(in.cell.data[i])
               /\ DOMAIN cell = {"data"}
          /\ in.kind \in BoxSetKinds =>
               /\ out.kind = SubtypeFor(calls[p].dst)
               /\ cell.with_yaw = in.cell.with_yaw
               /\ Len(cell.data) = Len(in.cell.data)

\* a LiDAR BoxSet without yaw, passed with with_yaw=true, came back from
\* LIDAR->CAM as a new Camera BoxSet without yaw
C11_Witness ==
  \E p \in DOMAIN frames :
    /\ KindCase(p)
    /\ calls[p].src = LIDAR /\ calls[p].dst = CAM
    /\ calls[p].box.kind = "LiDARInstance3DBoxes"
    /\ ~calls[p].box.cell.with_yaw /\ calls[p].with_yaw
    /\ frames[p].ret.value.kind = "CameraInstance3DBoxes"
    /\ ~heap[frames[p].ret.value.ref].with_yaw
    /\ frames[p].ret.value.ref # 1

(***************************************************************************)
(* C12.  The BoxSet's flag overrides the argument.                         *)
(***************************************************************************)
\* the same call with the other value of the with_yaw argument
Flipped(p) ==
  Run([FrameOf(calls[p]) EXCEPT !.with_yaw = ~calls[p].with_yaw],
      HeapOf(calls[p]))

\* the case of C12: a call on a BoxSet, with src != dst, has ended
BoxSetCase(p) ==
  /\ calls[p].box.kind \in BoxSetKinds
  /\ calls[p].src # calls[p].dst
  /\ frames[p].pc \in {"done", "raised"}

\* C12: when the input is a BoxSet, whether column 6 is transformed as a yaw
\* or passed through, and the with_yaw flag of the returned BoxSet, are
\* determined by the BoxSet's own flag: the result is the same whatever the
\* caller passes as with_yaw.
C12_FlagOverrides ==
  \A p \in DOMAIN frames :
    BoxSetCase(p) =>
      LET other == Flipped(p)
          own == calls[p].box.cell.with_yaw
      IN  /\ other.f.pc = frames[p].pc
          /\ other.f.ret.status = frames[p].ret.status
          /\ frames[p].with_yaw = own
          /\ Returned(p) =>
               /\ other.f.ret.value.kind = frames[p].ret.value.kind
               /\ other.h[other.f.ret.value.ref] = heap[frames[p].ret.value.ref]
               /\ heap[frames[p].ret.value.ref].with_yaw = own
               /\ (~own /\ Len(InRows(p)[1]) >= 7) =>
                    \A i \in 1..Len(InRows(p)) :
                      OutRows(p)[i][7] = InRows(p)[i][7]
               /\ (own /\ ~calls[p].correct_yaw /\ Len(InRows(p)[1]) >= 7) =>
                    \A i \in 1..Len(InRows(p)) :
                      OutRows(p)[i][7] =
                        TableYaw(calls[p].src, calls[p].dst, InRows(p)[i])

\* a BoxSet with a yaw, passed with with_yaw=false, had its yaw column
\* transformed and came back with its flag set
C12_Witness ==
  \E p \in DOMAIN frames :
    /\ BoxSetCase(p) /\ Returned(p)
    /\ calls[p].box.cell.with_yaw /\ ~calls[p].with_yaw
    /\ ~calls[p].correct_yaw
    /\ calls[p].src = LIDAR /\ calls[p].dst = DEPTH
    /\ Len(InRows(p)[1]) >= 7
    /\ InRows(p)[1][7] = 1
    /\ OutRows(p)[1][7] = 1 + PI \div 2
    /\ heap[frames[p].ret.value.ref].with_yaw

(***************************************************************************)
(* C13.  A supplied rt_mat replaces the default.                           *)
(***************************************************************************)
\* R * (x, y, z), plus t when the matrix has a fourth column
Applied(m, r) ==
  [j \in 1..3 |->
     m[j][1] * r[1] + m[j][2] * r[2] + m[j][3] * r[3]
     + (IF Len(m[j]) = 4 THEN m[j][4] ELSE 0)]

\* the case of C13: a call with a supplied rt_mat over a supported pair
\* has returned
SuppliedCase(p) ==
  /\ Supported(calls[p].src, calls[p].dst)
  /\ ~DefaultMat(p)
  /\ Returned(p)

\* C13: a supplied rt_mat replaces the default and is applied to the
\* center: a 3x3 R gives R*(x,y,z), a matrix [R|t] with a fourth column
\* gives R*(x,y,z)+t, and the output center has exactly 3 columns.
C13_SuppliedMatrix ==
  \A p \in DOMAIN frames :
    SuppliedCase(p) =>
      \A i \in 1..Len(InRows(p)) :
        /\ Len(OutRows(p)[i]) = Len(InRows(p)[i])
        /\ Slice(OutRows(p)[i], 0, 3) =
             Applied(calls[p].rt_mat.data, InRows(p)[i])

\* DEPTH->LIDAR with the affine matrix: the center is R*(1,2,3)+t, which is
\* not what the default matrix of the pair gives
C13_Witness ==
  \E p \in DOMAIN frames :
    /\ SuppliedCase(p)
    /\ calls[p].src = DEPTH /\ calls[p].dst = LIDAR
    /\ calls[p].rt_mat.data = Affine
    /\ Slice(InRows(p)[1], 0, 3) = <<1, 2, 3>>
    /\ Slice(OutRows(p)[1], 0, 3) = <<3, -4, 3>>
    /\ TableCenter(DEPTH, LIDAR, InRows(p)[1]) = <<2, -1, 3>>

(***************************************************************************)
(* C14.  Without a yaw, columns 6.. pass through.                          *)
(***************************************************************************)
\* the case of C14: a call without a yaw column over a supported pair has
\* returned
NoYawCase(p) ==
  /\ Supported(calls[p].src, calls[p].dst)
  /\ ~HasYaw(p)
  /\ Returned(p)

\* C14: with with_yaw=false, for every supported pair and every rt_mat, the
\* input's columns 6.. are in the output at the same positions with the
\* same values, no yaw column is inserted, and the output is as wide as
\* the input.
C14_NoYawPassthrough ==
  \A p \in DOMAIN frames :
    NoYawCase(p) =>
      \A i \in 1..Len(InRows(p)) :
        /\ Len(OutRows(p)[i]) = Len(InRows(p)[i])
        /\ ColsFrom(OutRows(p), 6) = ColsFrom(InRows(p), 6)
        /\ \A j \in 7..Len(InRows(p)[i]) : OutRows(p)[i][j] = InRows(p)[i][j]

\* an array of 7 + MaxExtra columns without a yaw came back with column 6
\* and the columns after it as they were
C14_Witness ==
  \E p \in DOMAIN frames :
    /\ NoYawCase(p)
    /\ calls[p].box.kind = "ndarray"
    /\ calls[p].src = LIDAR /\ calls[p].dst = CAM
    /\ Len(InRows(p)[1]) = 7 + MaxExtra
    /\ InRows(p)[1][7] = 3
    /\ OutRows(p)[1][7] = 3
    /\ OutRows(p)[1][7 + MaxExtra] = 10 + MaxExtra
    /\ Slice(OutRows(p)[1], 0, 3) # Slice(InRows(p)[1], 0, 3)

(***************************************************************************)
(* C16.  The geometric yaw.                                                *)
(***************************************************************************)
\* the direction of a yaw in the source system
Direction(src, y) ==
  IF src = CAM THEN <<Cos(-y), 0, Sin(-y)>> ELSE <<Cos(y), Sin(y), 0>>

\* the rotation applied to positions: the 3x3 part of the supplied rt_mat,
\* or the default of the pair
UsedRotation(p) ==
  IF DefaultMat(p)
  THEN DefaultRtMat(calls[p].src, calls[p].dst)
  ELSE [j \in 1..3 |-> Slice(calls[p].rt_mat.data[j], 0, 3)]

\* wrap(atan2) of the rotated direction, in the convention of dst
GeometricYaw(p, r) ==
  LET m == UsedRotation(p)
      d == Direction(calls[p].src, r[7])
      v == [j \in 1..3 |-> m[j][1] * d[1] + m[j][2] * d[2] + m[j][3] * d[3]]
  IN  IF calls[p].dst = CAM
      THEN WrapTo(Atan2(-v[3], v[1]))
      ELSE WrapTo(Atan2(v[2], v[1]))

\* the case of C16: a box with a yaw, correct_yaw=true, a supported pair,
\* returned
GeometricCase(p) ==
  /\ Supported(calls[p].src, calls[p].dst)
  /\ HasYaw(p) /\ calls[p].correct_yaw
  /\ Returned(p)
  /\ WellFormed(p)

\* C16: with with_yaw and correct_yaw true, the output yaw is
\* wrap(atan2(-v_z, v_x)) for dst=CAM and wrap(atan2(v_y, v_x)) for
\* dst=LIDAR/DEPTH, where v is the rotation applied to positions (the 3x3
\* part of the supplied rt_mat, or the default) applied to the source
\* direction ((cos yaw, sin yaw, 0) for LIDAR/DEPTH, (cos(-yaw), 0,
\* sin(-yaw)) for CAM).
C16_GeometricYaw ==
  \A p \in DOMAIN frames :
    GeometricCase(p) =>
      \A i \in 1..Len(InRows(p)) :
        OutRows(p)[i][7] = GeometricYaw(p, InRows(p)[i])

\* DEPTH->LIDAR with the supplied quarter turn: the yaw follows the
\* rotation (yaw + pi/2), not the table's offset (yaw - pi/2)
C16_Witness ==
  \E p \in DOMAIN frames :
    /\ GeometricCase(p)
    /\ calls[p].src = DEPTH /\ calls[p].dst = LIDAR
    /\ calls[p].rt_mat.data = RotZ
    /\ InRows(p)[1][7] = 1
    /\ OutRows(p)[1][7] = 1 + PI \div 2
    /\ TableYaw(DEPTH, LIDAR, InRows(p)[1]) = 1 - PI \div 2

(***************************************************************************)
(* C15.  The column layout with a yaw.                                     *)
(***************************************************************************)
\* the case of C15: a box with a yaw column over a supported pair has
\* returned
LayoutCase(p) ==
  /\ Supported(calls[p].src, calls[p].dst)
  /\ HasYaw(p)
  /\ Returned(p)
  /\ WellFormed(p)

\* C15: with with_yaw=true the output row is center (3 columns) ++
\* permuted sizes (3) ++ new yaw (1) ++ the input's columns 7.. unchanged,
\* for every supported pair, every rt_mat and both values of correct_yaw,
\* and the output is as wide as the input.
C15_Layout ==
  \A p \in DOMAIN frames :
    LayoutCase(p) =>
      \A i \in 1..Len(InRows(p)) :
        LET r == InRows(p)[i]
            o == OutRows(p)[i]
            center == IF DefaultMat(p)
                      THEN TableCenter(calls[p].src, calls[p].dst, r)
                      ELSE Applied(calls[p].rt_mat.data, r)
            yaw == IF calls[p].correct_yaw
                   THEN GeometricYaw(p, r)
                   ELSE TableYaw(calls[p].src, calls[p].dst, r)
        IN  /\ Len(o) = Len(r)
            /\ o = center \o TableSizes(calls[p].src, calls[p].dst, r)
                     \o <<yaw>> \o Slice(r, 7, Len(r))

\* a tensor of 7 + MaxExtra columns with a yaw came back with the extras
\* after the new yaw, the center and the sizes changed
C15_Witness ==
  \E p \in DOMAIN frames :
    /\ LayoutCase(p)
    /\ calls[p].box.kind = "Tensor"
    /\ calls[p].src = CAM /\ calls[p].dst = LIDAR
    /\ Len(InRows(p)[1]) = 7 + MaxExtra
    /\ InRows(p)[1] = <<1, 2, 3, 4, 5, 6, 1>> \o Extras(MaxExtra)
    /\ OutRows(p)[1] = <<3, -1, -2, 4, 6, 5, -3>> \o Extras(MaxExtra)

(***************************************************************************)
(* C17.  Two callers converting the same box concurrently.                 *)
(***************************************************************************)
\* the rows the two callers share: a yaw and all the pass-through columns
SharedRows ==
  {Row(<<1, 2, 3>>, <<4, 5, 6>>, y, 7 + MaxExtra) : y \in {1, 2}}

\* the shared box: an array, a tensor of two rows, a BoxSet with a yaw
SharedBoxes(row, src) ==
  {[kind |-> "ndarray", cell |-> [data |-> <<row>>]],
   [kind |-> "Tensor", cell |-> [data |-> <<row, Partner(row)>>]],
   [kind |-> SrcType(src), cell |-> [data |-> <<row>>, with_yaw |-> TRUE]]}

\* the rt_mat the two callers share
SharedRtMats == {m \in RtMats : m.kind \in {"None", "Tensor"}}

\* two callers hold the same box (and rt_mat) and call convert with their
\* own dst, with_yaw and correct_yaw
InitConc ==
  \E row \in SharedRows, src \in Modes, m \in SharedRtMats,
     dst1 \in Modes, dst2 \in Modes, wy \in BOOLEAN,
     cy1 \in BOOLEAN, cy2 \in BOOLEAN :
    \E b \in SharedBoxes(row, src) :
      LET c1 == Call(b, src, dst1, m, TRUE, cy1)
          c2 == Call(b, src, dst2, m, wy, cy2)
      IN  /\ heap = HeapOf(c1)
          /\ frames = [p \in {1, 2} |-> IF p = 1 THEN FrameOf(c1)
                                        ELSE FrameOf(c2)]
          /\ calls = [p \in {1, 2} |-> IF p = 1 THEN c1 ELSE c2]

SpecConc == InitConc /\ [][Next]_vars

\* the same call run alone on the heap it was given
Alone(p) == Run(FrameOf(calls[p]), HeapOf(calls[p]))

\* C17: when two callers convert the same BoxSet (or array) concurrently,
\* under every interleaving of their steps each call returns what it
\* returns when run alone, and the shared input buffer is unchanged at every
\* point.
C17_NoInterference ==
  \A p \in DOMAIN frames :
    /\ heap[1] = calls[p].box.cell
    /\ frames[p].pc \in {"done", "raised"} =>
         LET alone == Alone(p)
         IN  /\ alone.f.pc = frames[p].pc
             /\ alone.f.ret.status = frames[p].ret.status
             /\ Returned(p) =>
                  /\ alone.f.ret.value.kind = frames[p].ret.value.kind
                  /\ (alone.f.ret.value.ref = 1) = (frames[p].ret.value.ref = 1)
                  /\ alone.h[alone.f.ret.value.ref] =
                       heap[frames[p].ret.value.ref]

\* the two calls overlapped (the first copied the box before the second,
\* the second returned before the first), converted the shared box to
\* different systems and returned different rows
C17_Witness ==
  /\ DOMAIN frames = {1, 2}
  /\ Returned(1) /\ Returned(2)
  /\ calls[1].dst # calls[2].dst
  /\ calls[1].dst # calls[1].src /\ calls[2].dst # calls[2].src
  /\ frames[1].ret.value.ref > frames[2].ret.value.ref
  /\ frames[2].ret.value.ref > Len(HeapOf(calls[1])) + 2
  /\ OutRows(1) # OutRows(2)
  /\ OutRows(1) # InRows(1)
  /\ heap[1] = calls[1].box.cell

(***************************************************************************)
(* C18.  Without correct_yaw the yaw does not depend on rt_mat.            *)
(***************************************************************************)
\* the same call with another rt_mat argument
WithRtMat(p, m) ==
  LET c == [calls[p] EXCEPT !.rt_mat = m]
  IN  Run(FrameOf(c), HeapOf(c))

\* the case of C18: a box with a yaw, correct_yaw=false, a supported pair,
\* returned
ClosedFormCase(p) ==
  /\ Supported(calls[p].src, calls[p].dst)
  /\ HasYaw(p) /\ ~calls[p].correct_yaw
  /\ Returned(p)
  /\ WellFormed(p)

\* C18: with correct_yaw=false, calls that differ only in rt_mat (None, a
\* 3x3 or a 3x4 matrix) return the same yaw, the table's closed-form
\* fixup, for every supported pair and every input yaw.
C18_YawIgnoresRtMat ==
  \A p \in DOMAIN frames :
    ClosedFormCase(p) =>
      \A m \in RtMats :
        LET other == WithRtMat(p, m)
        IN  /\ other.f.pc = "done"
            /\ \A i \in 1..Len(InRows(p)) :
                 /\ OutRows(p)[i][7] =
                      TableYaw(calls[p].src, calls[p].dst, InRows(p)[i])
                 /\ RowsOf(other.f.ret.value.kind,
                           other.h[other.f.ret.value.ref])[i][7] =
                      OutRows(p)[i][7]

\* DEPTH->LIDAR with the supplied quarter turn and correct_yaw=false: the
\* center follows the supplied rotation, the yaw the table (yaw - pi/2)
C18_Witness ==
  \E p \in DOMAIN frames :
    /\ ClosedFormCase(p)
    /\ calls[p].src = DEPTH /\ calls[p].dst = LIDAR
    /\ calls[p].rt_mat.data = RotZ
    /\ Slice(InRows(p)[1], 0, 3) = <<1, 2, 3>>
    /\ InRows(p)[1][7] = 1
    /\ Slice(OutRows(p)[1], 0, 3) = <<-2, 1, 3>>
    /\ TableCenter(DEPTH, LIDAR, InRows(p)[1]) = <<2, -1, 3>>
    /\ OutRows(p)[1][7] = 1 - PI \div 2

(***************************************************************************)
(* C19.  Rows are independent.                                             *)
(***************************************************************************)
\* the same call on row i alone, as a one-row box of the same kind
RowAlone(p, i) ==
  LET c == [calls[p] EXCEPT !.box.cell.data = <<InRows(p)[i]>>]
  IN  Run(FrameOf(c), HeapOf(c))

\* the case of C19: a call on an (N, k) array, tensor or BoxSet, with
\* src != dst, has ended
ArrayCase(p) ==
  /\ calls[p].box.kind \notin {"list", "tuple"}
  /\ calls[p].src # calls[p].dst
  /\ frames[p].pc \in {"done", "raised"}

\* C19: for src != dst, row i of the conversion of an (N, k) array is the
\* result of converting row i alone as a one-row array with the same src,
\* dst, rt_mat and flags, and the rows keep their order.
C19_RowsIndependent ==
  \A p \in DOMAIN frames :
    ArrayCase(p) =>
      \A i \in 1..Len(InRows(p)) :
        LET one == RowAlone(p, i)
        IN  /\ one.f.pc = frames[p].pc
            /\ one.f.ret.status = frames[p].ret.status
            /\ Returned(p) =>
                 /\ Len(OutRows(p)) = Len(InRows(p))
                 /\ RowsOf(one.f.ret.value.kind,
                           one.h[one.f.ret.value.ref]) = <<OutRows(p)[i]>>

\* a tensor of two different rows came back as two different rows, the
\* second being the conversion of the second row alone
C19_Witness ==
  \E p \in DOMAIN frames :
    /\ ArrayCase(p) /\ Returned(p)
    /\ Supported(calls[p].src, calls[p].dst)
    /\ Len(InRows(p)) = 2
    /\ Len(InRows(p)[1]) >= 7
    /\ InRows(p)[1] # InRows(p)[2]
    /\ OutRows(p)[1] # OutRows(p)[2]
    /\ OutRows(p)[2] # InRows(p)[2]
    /\ LET one == RowAlone(p, 2)
       IN  one.h[one.f.ret.value.ref].data = <<OutRows(p)[2]>>

(***************************************************************************)
(* C20.  Only the rotation part of rt_mat reaches the yaw.                 *)
(***************************************************************************)
\* the translation columns tried in place of the caller's
Shifts == {<<0, 0, 0>>, <<5, -1, 2>>, <<-3, 7, 1>>}

\* the matrix [R|t] with its translation column replaced by t
Shifted(m, t) == [j \in 1..3 |-> Slice(m[j], 0, 3) \o <<t[j]>>]

\* the same call with the translation column of rt_mat replaced by t
WithShift(p, t) ==
  WithRtMat(p, [calls[p].rt_mat EXCEPT !.data = Shifted(@, t)])

\* the case of C20: a box with a yaw, correct_yaw=true, a supplied matrix
\* [R|t], a supported pair, returned
ShiftCase(p) ==
  /\ Supported(calls[p].src, calls[p].dst)
  /\ HasYaw(p) /\ calls[p].correct_yaw
  /\ ~DefaultMat(p)
  /\ Width(calls[p].rt_mat.data) = 4
  /\ Returned(p)
  /\ WellFormed(p)

\* C20: with correct_yaw=true and a supplied matrix [R|t], changing the
\* translation column t changes the output center only (by the change of
\* t); the output yaw, sizes and extras are the same for every t.
C20_OnlyRotationReachesYaw ==
  \A p \in DOMAIN frames :
    ShiftCase(p) =>
      \A t \in Shifts :
        LET other == WithShift(p, t)
            rows == RowsOf(other.f.ret.value.kind,
                           other.h[other.f.ret.value.ref])
            m == calls[p].rt_mat.data
        IN  /\ other.f.pc = "done"
            /\ \A i \in 1..Len(InRows(p)) :
                 /\ Slice(rows[i], 3, Len(rows[i])) =
                      Slice(OutRows(p)[i], 3, Len(OutRows(p)[i]))
                 /\ \A j \in 1..3 :
                      rows[i][j] = OutRows(p)[i][j] - m[j][4] + t[j]

\* CAM->LIDAR with the affine matrix and correct_yaw: without the
\* translation the center is another, the yaw is the same
C20_Witness ==
  \E p \in DOMAIN frames :
    /\ ShiftCase(p)
    /\ calls[p].src = CAM /\ calls[p].dst = LIDAR
    /\ InRows(p)[1][7] = 1
    /\ LET other == WithShift(p, <<0, 0, 0>>)
           row == other.h[other.f.ret.value.ref].data
       IN  /\ calls[p].box.kind = "Tensor"
           /\ Slice(row[1], 0, 3) # Slice(OutRows(p)[1], 0, 3)
           /\ row[1][7] = OutRows(p)[1][7]
           /\ OutRows(p)[1][7] = GeometricYaw(p, InRows(p)[1])

(***************************************************************************)
(* C21.  Two conversions in a row against the direct one.                  *)
(***************************************************************************)
\* the system that is neither src nor dst of the call
Third(p) == CHOOSE c \in Modes : c # calls[p].src /\ c # calls[p].dst

\* the returned value converted on: convert(ret, dst, Third) with the same
\* flags and the default matrix, run on the heap the first call left
Onward(p) ==
  Run(Frame(frames[p].ret.value, calls[p].dst, Third(p), None,
            calls[p].with_yaw, calls[p].correct_yaw),
      heap)

OnwardRows(p) ==
  RowsOf(Onward(p).f.ret.value.kind, Onward(p).h[Onward(p).f.ret.value.ref])

\* the direct conversion: convert(box, src, Third) with the same arguments
Direct(p) ==
  LET c == [calls[p] EXCEPT !.dst = Third(p)]
  IN  Run(FrameOf(c), HeapOf(c))

DirectRows(p) ==
  RowsOf(Direct(p).f.ret.value.kind, Direct(p).h[Direct(p).f.ret.value.ref])

\* the case of C21: a well-formed box converted over a supported pair with
\* the default matrix
PathCase(p) ==
  /\ Supported(calls[p].src, calls[p].dst)
  /\ DefaultMat(p)
  /\ WellFormed(p)
  /\ Returned(p)

\* C21: for every three distinct systems A, B, C and every box b,
\* convert(convert(b,A,B),B,C) with the default matrices has the center and
\* the sizes of convert(b,A,C) and the same yaw modulo 2 pi, under
\* correct_yaw=false and under correct_yaw=true.
C21_PathIndependent ==
  \A p \in DOMAIN frames :
    PathCase(p) =>
      LET onward == Onward(p)
          direct == Direct(p)
          two == RowsOf(onward.f.ret.value.kind,
                        onward.h[onward.f.ret.value.ref])
          one == RowsOf(direct.f.ret.value.kind,
                        direct.h[direct.f.ret.value.ref])
      IN  /\ onward.f.pc = "done"
          /\ direct.f.pc = "done"
          /\ onward.f.ret.value.kind = direct.f.ret.value.kind
          /\ Len(two) = Len(one)
          /\ \A i \in 1..Len(InRows(p)) :
               /\ Slice(two[i], 0, 6) = Slice(one[i], 0, 6)
               /\ HasYaw(p) =>
                    /\ (two[i][7] - one[i][7]) % (2 * PI) = 0
                    /\ Slice(two[i], 7, Len(two[i])) =
                         Slice(one[i], 7, Len(one[i]))

\* a box with a yaw has gone LIDAR->DEPTH, then DEPTH->CAM, and arrived at
\* the box LIDAR->CAM gives, which is neither the box passed nor the box
\* in between
C21_Witness ==
  \E p \in DOMAIN frames :
    /\ PathCase(p) /\ HasYaw(p) /\ ~calls[p].correct_yaw
    /\ calls[p].src = LIDAR /\ calls[p].dst = DEPTH
    /\ InRows(p)[1] = <<1, 2, 3, 4, 5, 6, 1>>
    /\ OutRows(p)[1] = <<-2, 1, 3, 4, 5, 6, 1 + PI \div 2>>
    /\ Third(p) = CAM
    /\ OnwardRows(p)[1] = <<-2, -3, 1, 4, 6, 5, -1 - PI \div 2>>
    /\ DirectRows(p)[1] = OnwardRows(p)[1]

(***************************************************************************)
(* C22.  The identity shortcut comes before any validation.                *)
(***************************************************************************)
\* a box the checks of convert would refuse: a short list or tuple, or an
\* array narrower than its layout
Malformed(p) ==
  IF calls[p].box.kind \in {"list", "tuple"}
  THEN Len(InRows(p)[1]) < 7
  ELSE ~WellFormed(p)

\* the case of C22: a call with src == dst has taken its first step
ShortcutCase(p) == calls[p].src = calls[p].dst /\ frames[p].pc # "start"

\* C22: when src == dst, convert returns the input unchanged and raises
\* nothing, also when the box is malformed (a list of fewer than 7
\* elements, an array narrower than 6 or 7 columns) or the common tag is
\* none of LIDAR/CAM/DEPTH; an error occurs only when src != dst.
C22_ShortcutFirst ==
  \A p \in DOMAIN frames :
    /\ ShortcutCase(p) =>
         /\ frames[p].pc = "done"
         /\ frames[p].ret.status = "ok"
         /\ frames[p].ret.value = [kind |-> calls[p].box.kind, ref |-> 1]
         /\ heap[1] = calls[p].box.cell
         /\ Len(heap) = Len(HeapOf(calls[p]))
    /\ Raised(p) => calls[p].src # calls[p].dst

\* a list of two elements with src = dst = a tag outside the enum came back
\* itself
C22_Witness ==
  \E p \in DOMAIN frames :
    /\ ShortcutCase(p) /\ Returned(p)
    /\ calls[p].src = OTHER_MODE
    /\ calls[p].box.kind = "list"
    /\ Malformed(p)
    /\ Len(InRows(p)[1]) = 2
    /\ frames[p].ret.value.ref = 1
    /\ heap[1].data = InRows(p)[1]

====
